---- MODULE Spec2Model ----
(***************************************************************************)
(* A model of the regression-test engine of make.py: do_regression_tests   *)
(* (the per-configuration worker pool, the observation loop and the        *)
(* verdict) and print_progress; and of the script around it: __main__ and  *)
(* the preparation of the two corpora in test_data.                        *)
(*                                                                         *)
(* Spec, FairSpec and HangSpec begin at the for loop of                    *)
(* do_regression_tests; MainSpec is one run of the script, PrepSpec the    *)
(* script run again and again on the disk it leaves.                       *)
(*                                                                         *)
(* Every object the function creates is kept: iteration k of the           *)
(* configuration loop creates its own cmd_queue, completed_queue,          *)
(* failed_queue, failure_lock and threads, so each of these variables is   *)
(* a sequence indexed by k, and the objects of an earlier iteration stay   *)
(* in the state (their threads would go on running if they were alive).    *)
(***************************************************************************)
EXTENDS Integers, Sequences, FiniteSets, TLC

\* Bounds of the model.
MaxWorkers == 2
MaxClips == 2
MaxConfigs == 2

\* print_progress: default bar_length.
BarLength == 50

\* The termination marker (None); a work item is a record of other fields.
None == [none |-> TRUE]

VARIABLES
    num_threads,        \* args.num_threads
    regression_clips,   \* the sorted list of (clip_filename, size)
    test_configs,       \* the sorted list of (config_filename, filename)
    config_index,       \* position of the for loop over test_configs
    sup_pc,             \* position of the main thread
    cmd_queue,          \* cmd_queue[k]: the work queue of iteration k
    completed_queue,    \* completed_queue[k]
    failed_queue,       \* failed_queue[k]
    failure_lock,       \* failure_lock[k]: 0 when free, else the holder
    threads,            \* threads[k][i]: [pc, entry, result] of worker i
    num_processed,      \* the supervisor's local num_processed
    progress,           \* <<the progress line written last in this iteration>>, or <<>>
    stdout,             \* stdout[k]: the diagnostic lines the workers printed
    dequeued,           \* history: dequeued[k], the entries cmd_queue.get returned
    results,            \* history: results[k][clip], what the clip's command returned, run by run
    verdicts,           \* history: verdicts[k], regression_testing_failed of iteration k
    args,               \* args.regression_test
    zips,               \* zips[corpus]: the archive of the corpus in test_data, <<>> when absent
    data_dirs,          \* data_dirs[corpus]: the extracted corpus directory, <<>> when absent
    metadata,           \* metadata[corpus]: its metadata.sjson, <<>> when absent
    configs,            \* the files of test_data/configs, as os.walk finds them
    locals,             \* regression_data_dir and decomp_data_dir of __main__
    last_prepare,       \* history: what the preparation call made last did
    hung                \* the commands that never return

vars == <<num_threads, regression_clips, test_configs, config_index, sup_pc,
          cmd_queue, completed_queue, failed_queue, failure_lock, threads,
          num_processed, progress, stdout, dequeued, results,
          verdicts, args, zips, data_dirs, metadata, configs, locals,
          last_prepare, hung>>

\* What do_regression_tests leaves alone once it has enumerated the disk.
EngineEnvUnchanged ==
    UNCHANGED <<args, zips, data_dirs, metadata, configs, locals, last_prepare, hung>>

----------------------------------------------------------------------------
\* Sequences and sorting (list.sort is stable, also with reverse=True).

\* (key, entry) pairs: x goes after every element that does not sort after it.
RECURSIVE Insert(_, _, _)
Insert(s, x, reverse) ==
    IF s = <<>> THEN <<x>>
    ELSE IF (IF reverse THEN x.key > s[Len(s)].key ELSE x.key < s[Len(s)].key)
         THEN Append(Insert(SubSeq(s, 1, Len(s) - 1), x, reverse), s[Len(s)])
         ELSE Append(s, x)

\* list.sort(key=..., reverse=...) on a list of [key, entry] records.
RECURSIVE Sort(_, _)
Sort(s, reverse) ==
    IF s = <<>> THEN <<>>
    ELSE Insert(Sort(SubSeq(s, 1, Len(s) - 1), reverse), s[Len(s)], reverse)

Entries(s) == [i \in 1..Len(s) |-> s[i].entry]

\* Mutant: the configurations are left as they were found.
SortConfigsAsFound(found) == found

\* test_configs.sort(key=lambda entry: entry[1])
SortConfigs(found) ==
    Entries(Sort([i \in 1..Len(found) |-> [key |-> found[i].filename, entry |-> found[i]]], FALSE))

\* Mutant: reverse=True sorts descending and reverses the ties with it.
SortClipsTiesReversed(found) ==
    LET asc == Entries(Sort([i \in 1..Len(found) |->
                        [key |-> found[i].size, entry |-> found[i]]], FALSE))
    IN  [i \in 1..Len(asc) |-> asc[Len(asc) + 1 - i]]

\* regression_clips.sort(key=lambda entry: entry[1], reverse=True)
SortClips(found) ==
    Entries(Sort([i \in 1..Len(found) |-> [key |-> found[i].size, entry |-> found[i]]], TRUE))

\* os.walk over the corpus: m clips, found in ascending size.
FoundClips(m) == [i \in 1..m |-> [clip_filename |-> i, size |-> 10 * i]]

\* os.walk over the configs directory: k configurations, found in descending name.
FoundConfigs(k) == [i \in 1..k |-> [config_filename |-> k + 1 - i, filename |-> k + 1 - i]]

\* Python's round(): half to even, of num / den (den > 0).
RoundHalfEven(num, den) ==
    LET q == num \div den
        r == num % den
    IN  IF 2 * r < den THEN q
        ELSE IF 2 * r > den THEN q + 1
        ELSE IF q % 2 = 0 THEN q ELSE q + 1

----------------------------------------------------------------------------
\* print_progress

\* 100 * (iteration / float(total)) raises ZeroDivisionError.
PrintProgressRaises(total) == total = 0

\* The line print_progress writes: the percentage in tenths ("{0:.1f}"), the
\* filled part of the bar, the suffix 'iteration / total', and whether the
\* line is ended (iteration == total).
print_progress(iteration, total) ==
    [ percents      |-> RoundHalfEven(1000 * iteration, total),
      filled_length |-> RoundHalfEven(BarLength * iteration, total),
      suffix        |-> <<iteration, total>>,
      newline       |-> iteration = total ]

----------------------------------------------------------------------------
\* queue.Queue and threading.Lock

\* Mutant: put() enters the entry twice.
PutTwice(q, e) == Append(Append(q, e), e)

Put(q, e) == Append(q, e)
Front(q) == Head(q)
Rest(q) == Tail(q)
QSize(q) == Len(q)
Empty(q) == q = <<>>

Free == 0

----------------------------------------------------------------------------
NumClips == Len(regression_clips)
NumConfigs == Len(test_configs)
Running == sup_pc \notin {"returned", "exit_failed", "exit_interrupt", "raised",
                          "exit_empty", "exit_tool"}

\* The process exit status once the main thread has ended.
ExitStatus == IF sup_pc = "returned" THEN 0 ELSE 1

\* Nothing of the engine exists before the for loop.
NoEngine ==
    /\ config_index = 0
    /\ cmd_queue = <<>>
    /\ completed_queue = <<>>
    /\ failed_queue = <<>>
    /\ failure_lock = <<>>
    /\ threads = <<>>
    /\ num_processed = 0
    /\ progress = <<>>
    /\ stdout = <<>>
    /\ dequeued = <<>>
    /\ results = <<>>
    /\ verdicts = <<>>

\* do_regression_tests has enumerated and sorted the clips and the
\* configurations and is at its for loop; the disk is not read again.
EngineInit ==
    /\ num_threads \in 1..MaxWorkers
    /\ \E m \in 0..MaxClips : regression_clips = SortClips(FoundClips(m))
    /\ \E k \in 0..MaxConfigs : test_configs = SortConfigs(FoundConfigs(k))
    /\ sup_pc = "for"
    /\ NoEngine
    /\ args = [regression_test |-> TRUE]
    /\ zips = <<>> /\ data_dirs = <<>> /\ metadata = <<>> /\ configs = <<>>
    /\ locals = <<>> /\ last_prepare = <<>>

Init ==
    /\ EngineInit
    /\ hung = {}

----------------------------------------------------------------------------
\* The main thread.

\* cmd = '{} -acl="{}" -test -config="{}"'.format(...)
Command(clip_filename, config_filename) ==
    [acl |-> clip_filename, config |-> config_filename]

\* for clip_filename, _ in regression_clips: cmd_queue.put((clip_filename, cmd))
WorkItems(config_filename) ==
    [i \in 1..NumClips |->
        [clip_filename |-> regression_clips[i].clip_filename,
         cmd |-> Command(regression_clips[i].clip_filename, config_filename)]]

\* Mutant: one marker too few.
MarkersOneShort(n) == [i \in 1..(n - 1) |-> None]

\* for i in range(args.num_threads): cmd_queue.put(None)
Markers(n) == [i \in 1..n |-> None]

\* Mutant: the markers are put before the work items.
SeedMarkersFirst(items, markers) == markers \o items

\* The queue after the two seeding loops: the work items, then the markers.
Seed(items, markers) == items \o markers

\* The Thread objects of one iteration, not yet started.
NewThreads(n) == [i \in 1..n |-> [pc |-> "created", entry |-> None, result |-> 0]]

\* Mutant: a thread blocked in its command reads as inactive.
IsAliveUnlessBlocked(t) == t.pc \notin {"created", "done", "killed", "system"}

\* thread.isAlive(): started and not ended
IsAlive(t) == t.pc \notin {"created", "done", "killed"}

\* Mutant: the workers outlive the main thread.
KilledNone(ts) == ts

\* thread.daemon = True: the process does not wait for the workers, and a
\* worker that is alive when the main thread ends is ended with the process,
\* wherever it is.
Killed(ts) == [k \in 1..Len(ts) |-> [i \in 1..Len(ts[k]) |->
                IF IsAlive(ts[k][i]) THEN [pc |-> "killed", entry |-> None, result |-> 0]
                ELSE ts[k][i]]]

\* The objects of an earlier iteration are referenced by its threads alone
\* once the loop variables are bound again: they are freed unless one of its
\* threads is still alive.
Referenced(k) == \E i \in 1..Len(threads[k]) : IsAlive(threads[k][i])
Rebind(objects, free, new) ==
    Append([k \in 1..Len(objects) |-> IF Referenced(k) THEN objects[k] ELSE free], new)

\* One iteration of the for loop begins: the queues, the lock and the thread
\* objects are created and the queue is seeded.
StartConfiguration ==
    /\ sup_pc = "for"
    /\ config_index < NumConfigs
    /\ config_index' = config_index + 1
    /\ cmd_queue' = Rebind(cmd_queue, <<>>,
          Seed(WorkItems(test_configs[config_index + 1].config_filename),
               Markers(num_threads)))
    /\ completed_queue' = Rebind(completed_queue, <<>>, <<>>)
    /\ failed_queue' = Rebind(failed_queue, <<>>, <<>>)
    /\ failure_lock' = Rebind(failure_lock, Free, Free)
    /\ threads' = Rebind(threads, <<>>, NewThreads(num_threads))
    /\ stdout' = Append(stdout, <<>>)
    /\ dequeued' = Append(dequeued, <<>>)
    /\ results' = Append(results,
          [c \in {regression_clips[p].clip_filename : p \in 1..NumClips} |-> <<>>])
    /\ progress' = <<>>
    /\ sup_pc' = "start"
    /\ EngineEnvUnchanged
    /\ UNCHANGED <<num_threads, regression_clips, test_configs, num_processed,
                   verdicts>>

\* The for loop is exhausted: do_regression_tests returns and the script ends.
Return ==
    /\ sup_pc = "for"
    /\ config_index = NumConfigs
    /\ sup_pc' = "returned"
    /\ threads' = Killed(threads)
    /\ EngineEnvUnchanged
    /\ UNCHANGED <<num_threads, regression_clips, test_configs, config_index,
                   cmd_queue, completed_queue, failed_queue, failure_lock,
                   num_processed, progress, stdout, dequeued, results, verdicts>>

NotStarted(k) == {i \in 1..Len(threads[k]) : threads[k][i].pc = "created"}

\* for thread in threads: thread.start()
StartThread ==
    /\ sup_pc = "start"
    /\ NotStarted(config_index) # {}
    /\ LET i == CHOOSE j \in NotStarted(config_index) :
                    \A l \in NotStarted(config_index) : j <= l
       IN  threads' = [threads EXCEPT ![config_index][i].pc = "get"]
    /\ EngineEnvUnchanged
    /\ UNCHANGED <<num_threads, regression_clips, test_configs, config_index, sup_pc,
                   cmd_queue, completed_queue, failed_queue, failure_lock,
                   num_processed, progress, stdout, dequeued, results, verdicts>>

\* print_progress(0, len(regression_clips), ...) before the try block.
FirstProgress ==
    /\ sup_pc = "start"
    /\ NotStarted(config_index) = {}
    /\ IF PrintProgressRaises(NumClips)
       THEN /\ sup_pc' = "raised"
            /\ threads' = Killed(threads)
            /\ UNCHANGED progress
       ELSE /\ sup_pc' = "join"
            /\ progress' = <<print_progress(0, NumClips)>>
            /\ UNCHANGED threads
    /\ EngineEnvUnchanged
    /\ UNCHANGED <<num_threads, regression_clips, test_configs, config_index,
                   cmd_queue, completed_queue, failed_queue, failure_lock,
                   num_processed, stdout, dequeued, results, verdicts>>

\* What the supervisor takes as the number of processed clips.
Sampled(q) == QSize(q)

\* Mutant: the entries are counted by taking them out.
AfterQSizeDrained(q) == <<>>

\* qsize() leaves the queue as it is.
AfterQSize(q) == q

\* for thread in threads: thread.join(1.0)
\* num_processed = completed_queue.qsize(); print_progress(num_processed, ...)
\* The bounded joins only wait (for the threads to end, or for the timeout):
\* the step happens at the instant the queue size is read.
Observe ==
    /\ sup_pc = "join"
    /\ num_processed' = Sampled(completed_queue[config_index])
    /\ completed_queue' = [completed_queue EXCEPT ![config_index] = AfterQSize(@)]
    /\ progress' = <<print_progress(num_processed', NumClips)>>
    /\ sup_pc' = "is_alive"
    /\ EngineEnvUnchanged
    /\ UNCHANGED <<num_threads, regression_clips, test_configs, config_index,
                   cmd_queue, failed_queue, failure_lock, threads,
                   stdout, dequeued, results, verdicts>>

\* Mutant: the loop is left when any thread has ended.
AnyThreadDone(ts) == \E i \in 1..Len(ts) : ~IsAlive(ts[i])

\* all_threads_done = True; for thread in threads: if thread.isAlive(): ... = False
\* The threads are read one after the other; a dead thread stays dead, so the
\* scan answers as one read of all of them at the instant of its last read
\* (True) or of its first read of a live thread (False). num_processed is
\* written again before it is read, so it is cleared here.
AllThreadsDone(ts) == \A i \in 1..Len(ts) : ~IsAlive(ts[i])

LivenessCheck ==
    /\ sup_pc = "is_alive"
    /\ LET all_threads_done == AllThreadsDone(threads[config_index])
       IN  sup_pc' = IF all_threads_done THEN "verdict" ELSE "join"
    /\ num_processed' = 0
    /\ EngineEnvUnchanged
    /\ UNCHANGED <<num_threads, regression_clips, test_configs, config_index,
                   cmd_queue, completed_queue, failed_queue, failure_lock, threads,
                   progress, stdout, dequeued, results, verdicts>>

\* except KeyboardInterrupt: sys.exit(1)
Interrupt ==
    /\ sup_pc \in {"join", "is_alive"}
    /\ sup_pc' = "exit_interrupt"
    /\ threads' = Killed(threads)
    /\ EngineEnvUnchanged
    /\ UNCHANGED <<num_threads, regression_clips, test_configs, config_index,
                   cmd_queue, completed_queue, failed_queue, failure_lock,
                   num_processed, progress, stdout, dequeued, results, verdicts>>

\* Mutant: the negation is forgotten.
RegressionTestingFailedInverted(q) == Empty(q)

\* regression_testing_failed = not failed_queue.empty()
RegressionTestingFailed(q) == ~Empty(q)

\* Mutant: the failure is recorded and the loop goes on.
AfterVerdictGoesOn(regression_testing_failed) == "for"

\* if regression_testing_failed: sys.exit(1); else the for loop goes on
AfterVerdict(regression_testing_failed) ==
    IF regression_testing_failed THEN "exit_failed" ELSE "for"

\* The verdict of one iteration, lines 518 to 524.
Verdict ==
    /\ sup_pc = "verdict"
    /\ LET regression_testing_failed == RegressionTestingFailed(failed_queue[config_index])
       IN  /\ verdicts' = Append(verdicts, regression_testing_failed)
           /\ sup_pc' = AfterVerdict(regression_testing_failed)
           /\ threads' = IF sup_pc' = "exit_failed" THEN Killed(threads) ELSE threads
    /\ EngineEnvUnchanged
    /\ UNCHANGED <<num_threads, regression_clips, test_configs, config_index,
                   cmd_queue, completed_queue, failed_queue, failure_lock,
                   num_processed, progress, stdout, dequeued, results>>

----------------------------------------------------------------------------
\* The worker threads: run_clip_regression_test, worker i of iteration k.

\* What os.system(cmd) can return: 0, or a non-zero status.
ExitCodes == {0, 1}

WorkerVarsUnchanged ==
    /\ EngineEnvUnchanged
    /\ UNCHANGED <<num_threads, regression_clips, test_configs, config_index, sup_pc,
                   num_processed, progress, verdicts>>

\* What cmd_queue.get() leaves in the queue.
AfterGet(q) == Rest(q)

\* entry = cmd_queue.get(); if entry is None: return
Get(k, i) ==
    /\ threads[k][i].pc = "get"
    /\ ~Empty(cmd_queue[k])
    /\ LET entry == Front(cmd_queue[k])
       IN  /\ cmd_queue' = [cmd_queue EXCEPT ![k] = AfterGet(@)]
           /\ dequeued' = [dequeued EXCEPT ![k] = Append(@, entry)]
           /\ threads' = [threads EXCEPT ![k][i] =
                    IF entry = None THEN [@ EXCEPT !.pc = "done"]
                    ELSE [@ EXCEPT !.pc = "system", !.entry = entry]]
    /\ UNCHANGED <<completed_queue, failed_queue, failure_lock, stdout, results>>
    /\ WorkerVarsUnchanged

\* Mutant: the worker returns when its command fails.
AfterSystemReturns(result) == IF result # 0 THEN "done" ELSE "completed_put"

\* Where the worker goes with the status os.system returned.
AfterSystem(result) == IF result # 0 THEN "failed_put" ELSE "completed_put"

\* result = os.system(cmd) returns, unless the command never does
System(k, i) ==
    /\ threads[k][i].pc = "system"
    /\ threads[k][i].entry.cmd \notin hung
    /\ \E result \in ExitCodes :
          /\ threads' = [threads EXCEPT ![k][i].result = result,
                                        ![k][i].pc = AfterSystem(result)]
          /\ results' = [results EXCEPT ![k][threads[k][i].entry.clip_filename] =
                                Append(@, result)]
    /\ UNCHANGED <<cmd_queue, completed_queue, failed_queue, failure_lock, stdout, dequeued>>
    /\ WorkerVarsUnchanged

\* failed_queue.put((clip_filename, cmd))
FailedPut(k, i) ==
    /\ threads[k][i].pc = "failed_put"
    /\ failed_queue' = [failed_queue EXCEPT ![k] = Put(@, threads[k][i].entry)]
    /\ threads' = [threads EXCEPT ![k][i].pc = "acquire"]
    /\ UNCHANGED <<cmd_queue, completed_queue, failure_lock, stdout, dequeued, results>>
    /\ WorkerVarsUnchanged

\* Mutant: acquire() does not wait for the holder.
CanAcquireAlways(lock) == TRUE

\* When failure_lock.acquire() returns.
CanAcquire(lock) == lock = Free

\* failure_lock.acquire()
Acquire(k, i) ==
    /\ threads[k][i].pc = "acquire"
    /\ CanAcquire(failure_lock[k])
    /\ failure_lock' = [failure_lock EXCEPT ![k] = i]
    /\ threads' = [threads EXCEPT ![k][i].pc = "print_clip"]
    /\ UNCHANGED <<cmd_queue, completed_queue, failed_queue, stdout, dequeued, results>>
    /\ WorkerVarsUnchanged

\* print('Failed to run regression test for clip: {}'.format(clip_filename))
PrintClip(k, i) ==
    /\ threads[k][i].pc = "print_clip"
    /\ stdout' = [stdout EXCEPT ![k] =
            Append(@, [line |-> "clip", text |-> threads[k][i].entry.clip_filename])]
    /\ threads' = [threads EXCEPT ![k][i].pc = "print_cmd"]
    /\ UNCHANGED <<cmd_queue, completed_queue, failed_queue, failure_lock, dequeued, results>>
    /\ WorkerVarsUnchanged

\* print(cmd)
PrintCmd(k, i) ==
    /\ threads[k][i].pc = "print_cmd"
    /\ stdout' = [stdout EXCEPT ![k] =
            Append(@, [line |-> "cmd", text |-> threads[k][i].entry.cmd])]
    /\ threads' = [threads EXCEPT ![k][i].pc = "release"]
    /\ UNCHANGED <<cmd_queue, completed_queue, failed_queue, failure_lock, dequeued, results>>
    /\ WorkerVarsUnchanged

\* Mutant: the failure path goes back to the head of the loop (a continue).
AfterDiagnosticContinues == "get"

\* After the diagnostic the worker falls through to completed_queue.put.
AfterDiagnostic == "completed_put"

\* failure_lock.release()
Release(k, i) ==
    /\ threads[k][i].pc = "release"
    /\ failure_lock' = [failure_lock EXCEPT ![k] = Free]
    /\ threads' = [threads EXCEPT ![k][i].pc = AfterDiagnostic]
    /\ UNCHANGED <<cmd_queue, completed_queue, failed_queue, stdout, dequeued, results>>
    /\ WorkerVarsUnchanged

\* completed_queue.put(clip_filename), and back to the head of the loop; entry
\* and result are written again before they are read, so they are cleared here.
CompletedPut(k, i) ==
    /\ threads[k][i].pc = "completed_put"
    /\ completed_queue' = [completed_queue EXCEPT ![k] = Put(@, threads[k][i].entry.clip_filename)]
    /\ threads' = [threads EXCEPT ![k][i] = [pc |-> "get", entry |-> None, result |-> 0]]
    /\ UNCHANGED <<cmd_queue, failed_queue, failure_lock, stdout, dequeued, results>>
    /\ WorkerVarsUnchanged

\* One step of worker i of iteration k.
Worker(k, i) ==
    /\ Running
    /\ \/ Get(k, i)
       \/ System(k, i)
       \/ FailedPut(k, i)
       \/ Acquire(k, i)
       \/ PrintClip(k, i)
       \/ PrintCmd(k, i)
       \/ Release(k, i)
       \/ CompletedPut(k, i)

Supervisor ==
    \/ StartConfiguration
    \/ StartThread
    \/ FirstProgress
    \/ Observe
    \/ LivenessCheck
    \/ Verdict
    \/ Return

WorkerNext ==
    \/ \E k \in 1..Len(threads) : \E i \in 1..Len(threads[k]) : Running /\ Get(k, i)
    \/ \E k \in 1..Len(threads) : \E i \in 1..Len(threads[k]) : Running /\ System(k, i)
    \/ \E k \in 1..Len(threads) : \E i \in 1..Len(threads[k]) : Running /\ FailedPut(k, i)
    \/ \E k \in 1..Len(threads) : \E i \in 1..Len(threads[k]) : Running /\ Acquire(k, i)
    \/ \E k \in 1..Len(threads) : \E i \in 1..Len(threads[k]) : Running /\ PrintClip(k, i)
    \/ \E k \in 1..Len(threads) : \E i \in 1..Len(threads[k]) : Running /\ PrintCmd(k, i)
    \/ \E k \in 1..Len(threads) : \E i \in 1..Len(threads[k]) : Running /\ Release(k, i)
    \/ \E k \in 1..Len(threads) : \E i \in 1..Len(threads[k]) : Running /\ CompletedPut(k, i)

Next == Supervisor \/ WorkerNext \/ Interrupt

Spec == Init /\ [][Next]_vars

\* No user interrupt arrives, every thread is scheduled again and again, and
\* every external command returns.
NoInterruptNext == Supervisor \/ WorkerNext

FairSpec ==
    /\ Init
    /\ [][NoInterruptNext]_vars
    /\ WF_vars(Supervisor)
    /\ \A k \in 1..MaxConfigs : \A i \in 1..MaxWorkers :
          WF_vars(k \in 1..Len(threads) /\ i \in 1..Len(threads[k]) /\ Worker(k, i))

\* The commands a run can be made of.
Commands ==
    {Command(clip_filename, config_filename) :
        clip_filename \in 1..MaxClips, config_filename \in 1..MaxConfigs}

\* As FairSpec, with one command that never returns when it is run.
HangInit ==
    /\ EngineInit
    /\ \E cmd \in Commands : hung = {cmd}

HangSpec ==
    /\ HangInit
    /\ [][NoInterruptNext]_vars
    /\ WF_vars(Supervisor)
    /\ \A k \in 1..MaxConfigs : \A i \in 1..MaxWorkers :
          WF_vars(k \in 1..Len(threads) /\ i \in 1..Len(threads[k]) /\ Worker(k, i))

----------------------------------------------------------------------------
\* The script: __main__ and the preparation of the two corpora.

current_test_data == "test_data_v1"
current_decomp_data == "decomp_data_v2"
Corpora == {current_test_data, current_decomp_data}

\* test_data/configs
ConfigDir == "configs"

\* The one configuration the decompression corpus is prepared with.
uniformly_sampled_quant_var_2 == 1

\* os.path.getsize: the sizes a clip file can have.
ClipSizes == {10, 20}

\* os.path.join(dirpath, filename), os.path.relpath(path, start)
Join(dirpath, filename) == [dir |-> dirpath, name |-> filename]
RelPath(path, start) == IF path.dir = start THEN path.name ELSE path

\* The files an archive (and the directory extracted from it) can hold: m
\* clip files, named by their place in the order os.walk finds them in.
Archives ==
    UNION {{[i \in 1..m |-> [name |-> i, size |-> f[i]]] : f \in [1..m -> ClipSizes]} :
                m \in 0..MaxClips}

\* The same with clips of one size.
PlainArchives ==
    {[i \in 1..m |-> [name |-> i, size |-> 10]] : m \in 0..MaxClips}

\* The orders os.walk can find the configuration files 1..k in.
ConfigListings ==
    UNION {{f \in [1..k -> 1..k] : \A i, j \in 1..k : f[i] = f[j] => i = j} :
                k \in 0..MaxConfigs}

\* for ... in os.walk(dir): regression_clips.append((clip_filename, getsize))
\* (os.walk over a directory that does not exist finds nothing)
WalkClips(corpus, dir) ==
    IF dir = <<>> THEN <<>>
    ELSE [i \in 1..Len(dir[1]) |->
            [clip_filename |-> Join(corpus, dir[1][i].name), size |-> dir[1][i].size]]

\* for ... in os.walk(test_config_dir): test_configs.append((config_filename, filename))
WalkConfigs ==
    [i \in 1..Len(configs) |->
        [config_filename |-> Join(ConfigDir, configs[i]), filename |-> configs[i]]]

\* The same with the filter of do_prepare_decompression_test_data.
WalkDecompConfigs ==
    SelectSeq(WalkConfigs, LAMBDA entry : entry.filename = uniformly_sampled_quant_var_2)

\* zip_ref.extractall(test_data_dir)
ExtractAll(zip) == zip

\* Mutant: the corpus is extracted whether its directory exists or not.
NeedsDecompressionAlways(dir) == TRUE

\* needs_decompression = not os.path.exists(current_test_data_dir)
NeedsDecompression(dir) == dir = <<>>

\* Mutant: the lists are written as they were found.
RegressionMetadataUnsorted(found_configs, found_clips) ==
    [configs |-> [i \in 1..Len(found_configs) |->
                    RelPath(found_configs[i].config_filename, ConfigDir)],
     clips   |-> [i \in 1..Len(found_clips) |->
                    RelPath(found_clips[i].clip_filename, current_test_data)]]

\* metadata.sjson of the regression corpus, lines 323 to 338.
RegressionMetadata(found_configs, found_clips) ==
    [configs |-> [i \in 1..Len(found_configs) |->
                    RelPath(SortConfigs(found_configs)[i].config_filename, ConfigDir)],
     clips   |-> [i \in 1..Len(found_clips) |->
                    RelPath(SortClips(found_clips)[i].clip_filename, current_test_data)]]

\* metadata.sjson of the decompression corpus, lines 398 to 408: the lists
\* are written as they were found.
DecompressionMetadata(found_configs, found_clips) ==
    [configs |-> [i \in 1..Len(found_configs) |->
                    RelPath(found_configs[i].config_filename, ConfigDir)],
     clips   |-> [i \in 1..Len(found_clips) |->
                    RelPath(found_clips[i].clip_filename, current_decomp_data)]]

\* What is left alone by the steps of __main__ before do_regression_tests.
MainVarsUnchanged ==
    UNCHANGED <<num_threads, regression_clips, test_configs, config_index,
                cmd_queue, completed_queue, failed_queue, failure_lock, threads,
                num_processed, progress, stdout, dequeued, results, verdicts,
                args, zips, configs, hung>>

\* Mutant: a missing archive ends the run.
AfterMissingArchiveExits(next) == "exit_empty"

\* A missing archive: the call returns (None) and __main__ goes on.
AfterMissingArchive(next) == next

\* Mutant: an empty corpus is passed on.
AfterEmptyGoesOn(next) == next

\* No clip or no configuration found: sys.exit(1).
AfterEmpty(next) == "exit_empty"

\* The corpus directory once the archive is extracted, if it has to be.
Decompressed(corpus) ==
    IF NeedsDecompression(data_dirs[corpus]) THEN ExtractAll(zips[corpus])
    ELSE data_dirs[corpus]

\* One call of a preparation function: the corpus, the configurations and
\* the clips it finds, the manifest it writes on a cold cache, the local of
\* __main__ that takes what it returns, and where __main__ goes on.
Prepare(corpus, found_configs, found_clips, manifest, local, next) ==
    IF zips[corpus] = <<>>
    THEN /\ locals' = [locals EXCEPT ![local] = <<>>]
         /\ last_prepare' = <<[corpus |-> corpus, returned |-> "None",
                               extracted |-> FALSE, wrote |-> FALSE]>>
         /\ sup_pc' = AfterMissingArchive(next)
         /\ UNCHANGED <<data_dirs, metadata>>
    ELSE LET needs_decompression == NeedsDecompression(data_dirs[corpus])
         IN  /\ data_dirs' = [data_dirs EXCEPT ![corpus] = Decompressed(corpus)]
             /\ IF Len(found_clips) = 0 \/ Len(found_configs) = 0
                THEN /\ sup_pc' = AfterEmpty(next)
                     /\ last_prepare' = <<[corpus |-> corpus, returned |-> "exit",
                               extracted |-> needs_decompression, wrote |-> FALSE]>>
                     /\ UNCHANGED <<metadata, locals>>
                ELSE /\ metadata' = IF needs_decompression
                            THEN [metadata EXCEPT ![corpus] = <<manifest>>]
                            ELSE metadata
                     /\ locals' = [locals EXCEPT ![local] = <<corpus>>]
                     /\ last_prepare' = <<[corpus |-> corpus, returned |-> "dir",
                               extracted |-> needs_decompression,
                               wrote |-> needs_decompression]>>
                     /\ sup_pc' = next

\* regression_data_dir = do_prepare_regression_test_data(test_data_dir, args)
PrepareRegression ==
    /\ sup_pc = "prepare_regression"
    /\ LET found_clips == WalkClips(current_test_data, Decompressed(current_test_data))
       IN  Prepare(current_test_data, WalkConfigs, found_clips,
                   RegressionMetadata(WalkConfigs, found_clips),
                   "regression_data_dir", "prepare_decompression")
    /\ MainVarsUnchanged

\* decomp_data_dir = do_prepare_decompression_test_data(test_data_dir, args)
PrepareDecompression ==
    /\ sup_pc = "prepare_decompression"
    /\ LET found_clips == WalkClips(current_decomp_data, Decompressed(current_decomp_data))
       IN  Prepare(current_decomp_data, WalkDecompConfigs, found_clips,
                   DecompressionMetadata(WalkDecompConfigs, found_clips),
                   "decomp_data_dir", "generate")
    /\ MainVarsUnchanged

\* do_generate_solution, do_build, do_tests: each ends the script with the
\* status of its tool when that is not 0.
Tools ==
    /\ sup_pc = "generate"
    /\ sup_pc' \in {"regression_tests", "exit_tool"}
    /\ MainVarsUnchanged
    /\ UNCHANGED <<data_dirs, metadata, locals, last_prepare>>

\* if args.regression_test ...: do_regression_tests(...), up to its for loop;
\* sys.exit(0) when the regression tests are not asked for, sys.exit(1) when
\* the compressor is not found.
EnterRegression ==
    /\ sup_pc = "regression_tests"
    /\ IF ~args.regression_test
       THEN /\ sup_pc' = "returned"
            /\ UNCHANGED <<regression_clips, test_configs>>
       ELSE \/ /\ sup_pc' = "exit_tool"
               /\ UNCHANGED <<regression_clips, test_configs>>
            \/ /\ regression_clips' =
                        SortClips(WalkClips(current_test_data, data_dirs[current_test_data]))
               /\ test_configs' = SortConfigs(WalkConfigs)
               /\ sup_pc' = "for"
    /\ UNCHANGED <<num_threads, config_index,
                   cmd_queue, completed_queue, failed_queue, failure_lock, threads,
                   num_processed, progress, stdout, dequeued, results, verdicts,
                   args, zips, configs, hung, data_dirs, metadata, locals, last_prepare>>

\* The script is started with nothing extracted yet.
ScriptInit ==
    /\ num_threads = 1
    /\ sup_pc = "prepare_regression"
    /\ regression_clips = <<>>
    /\ test_configs = <<>>
    /\ NoEngine
    /\ configs \in ConfigListings
    /\ data_dirs = [c \in Corpora |-> <<>>]
    /\ metadata = [c \in Corpora |-> <<>>]
    /\ locals = [regression_data_dir |-> <<>>, decomp_data_dir |-> <<>>]
    /\ last_prepare = <<>>
    /\ hung = {}

\* One run of the script with one worker thread and no user interrupt.
MainNext ==
    \/ PrepareRegression
    \/ PrepareDecompression
    \/ Tools
    \/ EnterRegression
    \/ Supervisor
    \/ WorkerNext

MainInit ==
    /\ ScriptInit
    /\ args \in [regression_test : BOOLEAN]
    /\ zips \in [Corpora -> {<<>>} \cup {<<a>> : a \in Archives}]
    /\ zips[current_decomp_data] \in {<<>>} \cup {<<a>> : a \in PlainArchives}

MainSpec == MainInit /\ [][MainNext]_vars

\* The script is run again on the disk the last run has left.
Rerun ==
    /\ ~Running
    /\ sup_pc' = "prepare_regression"
    /\ locals' = [regression_data_dir |-> <<>>, decomp_data_dir |-> <<>>]
    /\ UNCHANGED <<last_prepare, data_dirs, metadata>>
    /\ MainVarsUnchanged

\* The script run again and again without -regression_test.
PrepNext ==
    \/ PrepareRegression
    \/ PrepareDecompression
    \/ Tools
    \/ EnterRegression
    \/ Rerun

PrepInit ==
    /\ ScriptInit
    /\ args = [regression_test |-> FALSE]
    /\ zips \in [Corpora -> {<<>>} \cup {<<a>> : a \in Archives}]

PrepSpec == PrepInit /\ [][PrepNext]_vars

----------------------------------------------------------------------------
\* The claims.

Pools == 1..Len(threads)
Threads(k) == 1..Len(threads[k])
Clips == {regression_clips[p].clip_filename : p \in 1..NumClips}

\* Every worker of iteration k was started and has returned.
AllDone(k) == threads[k] # <<>> /\ \A i \in Threads(k) : threads[k][i].pc = "done"

Count(s, e) == Cardinality({p \in 1..Len(s) : s[p] = e})
Dequeues(k, c) == Cardinality({p \in 1..Len(dequeued[k]) :
                        dequeued[k][p] # None /\ dequeued[k][p].clip_filename = c})
InQueue(k, c) == Cardinality({p \in 1..Len(cmd_queue[k]) :
                        cmd_queue[k][p] # None /\ cmd_queue[k][p].clip_filename = c})
InFlight(k, c) == Cardinality({i \in Threads(k) :
                        /\ threads[k][i].pc \notin {"created", "get", "done"}
                        /\ threads[k][i].entry # None
                        /\ threads[k][i].entry.clip_filename = c})
NonZero(k) == {c \in DOMAIN results[k] : \E p \in 1..Len(results[k][c]) : results[k][c][p] # 0}
VerdictRead(k) == k <= Len(verdicts)

\* C1: once all workers of an iteration are inactive, each of its M work
\* items was dequeued once and its command run once, and the completed queue
\* holds M entries, one per clip.
ExactlyOnce ==
    \A k \in Pools : AllDone(k) =>
        /\ \A c \in Clips : Dequeues(k, c) = 1 /\ Len(results[k][c]) = 1
        /\ Len(completed_queue[k]) = NumClips
        /\ \A c \in Clips : Count(completed_queue[k], c) = 1

\* Two workers have drained a queue of two items, which completed out of
\* dispatch order.
ExactlyOnceWitness ==
    \E k \in Pools :
        /\ AllDone(k) /\ Len(threads[k]) >= 2 /\ NumClips >= 2
        /\ completed_queue[k][1] # regression_clips[1].clip_filename

\* C2: once the verdict of an iteration with a failure record is read, the
\* process has exited with a non-zero status and no later iteration was
\* begun: no queue, no thread beyond this iteration's.
EarlyAbort ==
    \A k \in 1..Len(failed_queue) :
        (VerdictRead(k) /\ ~Empty(failed_queue[k])) =>
            /\ sup_pc = "exit_failed" /\ ExitStatus # 0
            /\ config_index = k /\ Len(cmd_queue) = k /\ Len(threads) = k

\* The run was aborted on a configuration that is not the last one.
EarlyAbortWitness ==
    /\ sup_pc = "exit_failed"
    /\ config_index < NumConfigs
    /\ ~Empty(failed_queue[config_index])

\* C3: the verdict is read with every worker of the iteration inactive, so no
\* failure record can follow it; it is "failed" exactly when a command of the
\* iteration returned non-zero, with one failure record per such command; an
\* iteration is begun only after every earlier one passed, and the process
\* returns (status 0) only after every configuration passed.
VerdictSound ==
    /\ sup_pc = "verdict" => AllDone(config_index)
    /\ \A k \in 1..Len(verdicts) :
          /\ \A i \in Threads(k) : ~IsAlive(threads[k][i])
          /\ verdicts[k] <=> NonZero(k) # {}
          /\ AllDone(k) => Len(failed_queue[k]) = Cardinality(NonZero(k))
    /\ \A k \in 1..(config_index - 1) : VerdictRead(k) /\ ~verdicts[k]
    /\ sup_pc = "returned" =>
          /\ ExitStatus = 0
          /\ Len(verdicts) = NumConfigs
          /\ \A k \in 1..NumConfigs : ~verdicts[k] /\ NonZero(k) = {}

\* The first configuration passed, the second was run and failed.
VerdictSoundWitness ==
    /\ Len(verdicts) = 2
    /\ ~verdicts[1] /\ verdicts[2]
    /\ NumClips >= 2

\* C4: a failing item cancels nothing. While the process runs, every clip of
\* an iteration is in exactly one place (queued, in flight, or completed) and
\* a worker has ended only on a termination marker; and when the run is
\* aborted all M items were run and signalled and all N workers have read
\* their marker.
FailureIsolation ==
    /\ \A k \in Pools : (Running /\ threads[k] # <<>>) =>
          /\ \A c \in Clips :
                InQueue(k, c) + InFlight(k, c) + Count(completed_queue[k], c) = 1
          /\ Cardinality({i \in Threads(k) : threads[k][i].pc = "done"})
                = Count(dequeued[k], None)
    /\ sup_pc = "exit_failed" =>
          /\ AllDone(config_index)
          /\ Empty(cmd_queue[config_index])
          /\ Count(dequeued[config_index], None) = num_threads
          /\ Len(completed_queue[config_index]) = NumClips
          /\ \A c \in Clips : Len(results[config_index][c]) = 1

\* The run was aborted after the first dispatched item alone failed: its
\* sibling, dispatched later, ran and passed.
FailureIsolationWitness ==
    /\ sup_pc = "exit_failed"
    /\ NumClips >= 2
    /\ NonZero(config_index) = {regression_clips[1].clip_filename}

\* C5: when the observation loop is left, the last line print_progress wrote
\* is the complete one, M / M.
FinalProgressComplete ==
    sup_pc = "verdict" => progress = <<print_progress(NumClips, NumClips)>>

\* C6: before any worker is started the queue holds the M work items of the
\* configuration, in the order of regression_clips, then N markers; N thread
\* objects exist, and all N are started before the observation begins.
SeededQueue ==
    /\ (sup_pc = "start" /\ \A i \in Threads(config_index) :
                                threads[config_index][i].pc = "created") =>
          LET q == cmd_queue[config_index]
          IN  /\ Len(q) = NumClips + num_threads
              /\ \A p \in 1..NumClips :
                    /\ q[p] # None
                    /\ q[p].clip_filename = regression_clips[p].clip_filename
                    /\ q[p].cmd.acl = regression_clips[p].clip_filename
                    /\ q[p].cmd.config = test_configs[config_index].config_filename
              /\ \A p \in (NumClips + 1)..(NumClips + num_threads) : q[p] = None
    /\ sup_pc \in {"start", "join", "is_alive", "verdict"} =>
          Len(threads[config_index]) = num_threads
    /\ sup_pc \in {"join", "is_alive", "verdict"} =>
          \A i \in Threads(config_index) : threads[config_index][i].pc # "created"

\* A queue of two items and two markers, no worker started yet.
SeededQueueWitness ==
    /\ sup_pc = "start"
    /\ NumClips = 2 /\ num_threads = 2
    /\ \A i \in Threads(config_index) : threads[config_index][i].pc = "created"
    /\ Len(cmd_queue[config_index]) = 4

\* C8: only the threads of the current iteration are alive, at most N of
\* them: an iteration begins with every thread of the earlier ones inactive.
Sequential ==
    /\ \A k \in Pools : k # config_index => \A i \in Threads(k) : ~IsAlive(threads[k][i])
    /\ Cardinality({ki \in Pools \X (1..num_threads) :
            ki[2] \in Threads(ki[1]) /\ IsAlive(threads[ki[1]][ki[2]])}) <= num_threads

\* The second iteration runs with all its N >= 2 threads alive.
SequentialWitness ==
    /\ config_index = 2
    /\ num_threads >= 2
    /\ \A i \in Threads(2) : IsAlive(threads[2][i])

\* C10: a step of the supervisor in the observation loop leaves the three
\* queues as they are.
ObserverReadOnly ==
    [][(sup_pc \in {"join", "is_alive"} /\ sup_pc' # sup_pc) =>
            UNCHANGED <<cmd_queue, completed_queue, failed_queue>>]_vars

\* The supervisor has sampled a non-empty completed queue while work remains.
ObserverReadOnlyWitness ==
    /\ sup_pc = "is_alive"
    /\ num_processed >= 1
    /\ ~Empty(cmd_queue[config_index])
    /\ ~Empty(failed_queue[config_index])

\* The pool of iteration k has ended: each of its N workers has read one
\* marker and returned, the queue is empty, and the supervisor has seen all
\* of them inactive and left the observation loop.
PoolEnded(k) ==
    /\ config_index = k
    /\ sup_pc = "verdict"
    /\ AllDone(k)
    /\ Count(dequeued[k], None) = num_threads
    /\ Empty(cmd_queue[k])

\* C7: with every thread scheduled and every command returning, the pool of
\* every iteration that is begun ends.
PoolTerminates ==
    \A k \in 1..MaxConfigs : (config_index = k /\ sup_pc = "start") ~> PoolEnded(k)

\* The same for the iterations that have at least one clip.
PoolTerminatesWithClips ==
    \A k \in 1..MaxConfigs :
        (config_index = k /\ sup_pc = "start" /\ NumClips >= 1) ~> PoolEnded(k)

\* The worker is inside the lock-guarded diagnostic.
InDiagnostic(k, i) == threads[k][i].pc \in {"print_clip", "print_cmd", "release"}
Waiting(k, i) == k \in Pools /\ i \in Threads(k) /\ threads[k][i].pc = "acquire"
Admitted(k, i) == k \in Pools /\ i \in Threads(k) /\ threads[k][i].pc = "print_clip"

\* At most one worker is in the diagnostic, and it holds the lock.
DiagnosticMutex ==
    /\ Cardinality({ki \in Pools \X (1..num_threads) :
            ki[2] \in Threads(ki[1]) /\ InDiagnostic(ki[1], ki[2])}) <= 1
    /\ \A k \in Pools : \A i \in Threads(k) : InDiagnostic(k, i) => failure_lock[k] = i

\* The diagnostics are whole: a clip line is followed by the command line of
\* the same item, unless its worker is about to print it.
DiagnosticWhole ==
    \A k \in 1..Len(stdout) : \A p \in 1..Len(stdout[k]) :
        IF p % 2 = 1
        THEN /\ stdout[k][p].line = "clip"
             /\ p = Len(stdout[k]) =>
                    \E i \in Threads(k) : /\ threads[k][i].pc = "print_cmd"
                                          /\ threads[k][i].entry.clip_filename = stdout[k][p].text
        ELSE /\ stdout[k][p].line = "cmd"
             /\ stdout[k][p].text.acl = stdout[k][p - 1].text

\* C9: the diagnostic section is mutually exclusive, the two lines of an item
\* are never separated by a line of another worker, a waiting worker is
\* admitted and a held lock is released.
DiagnosticExclusive ==
    /\ [](DiagnosticMutex /\ DiagnosticWhole)
    /\ \A k \in 1..MaxConfigs : \A i \in 1..MaxWorkers : Waiting(k, i) ~> Admitted(k, i)
    /\ \A k \in 1..MaxConfigs :
          (k \in Pools /\ failure_lock[k] # Free) ~> (k \in Pools /\ failure_lock[k] = Free)

\* One worker is in the diagnostic while another waits for the lock.
DiagnosticExclusiveWitness ==
    \E k \in Pools : \E i, j \in Threads(k) :
        /\ i # j
        /\ threads[k][i].pc = "print_cmd"
        /\ threads[k][j].pc = "acquire"

----------------------------------------------------------------------------
\* The claims about the preparation of the corpora.

\* The preparation call made last was the one of corpus c.
Called(c) == last_prepare # <<>> /\ last_prepare[1].corpus = c

\* The configurations the preparation of corpus c looks for.
ConfigsFor(c) == IF c = current_test_data THEN WalkConfigs ELSE WalkDecompConfigs

\* Where __main__ is when it is about to prepare corpus c.
CallOf(c) == IF c = current_test_data THEN "prepare_regression" ELSE "prepare_decompression"

\* C11: a preparation call made while the corpus directory exists extracts
\* nothing and writes no manifest, for both corpora; and once a manifest is
\* written no step changes the corpus or the manifest again.
PreparationIdempotent ==
    [][\A c \in Corpora :
        /\ (sup_pc = CallOf(c) /\ sup_pc' # sup_pc /\ data_dirs[c] # <<>>) =>
              /\ data_dirs'[c] = data_dirs[c]
              /\ metadata'[c] = metadata[c]
              /\ ~last_prepare'[1].extracted
              /\ ~last_prepare'[1].wrote
        /\ metadata[c] # <<>> =>
              /\ data_dirs'[c] = data_dirs[c]
              /\ metadata'[c] = metadata[c]]_vars

\* Both corpora were prepared by an earlier run, and the decompression corpus
\* has just been prepared again on the warm cache.
PreparationIdempotentWitness ==
    /\ Called(current_decomp_data)
    /\ last_prepare[1].returned = "dir"
    /\ ~last_prepare[1].extracted
    /\ metadata[current_test_data] # <<>>
    /\ metadata[current_decomp_data] # <<>>

\* C12: with an archive absent, the preparation of its corpus returns None,
\* extracts nothing and writes no manifest, and the run does not end in a
\* failure that the missing corpus causes: not in the preparation, and not
\* by an exception of the regression tests.
SoftSkip ==
    \A c \in Corpora : zips[c] = <<>> =>
        /\ data_dirs[c] = <<>>
        /\ metadata[c] = <<>>
        /\ Called(c) => /\ last_prepare[1].returned = "None"
                        /\ sup_pc # "exit_empty"
        /\ sup_pc # "raised"

\* C13: an archive that is present with no clip, or with no configuration to
\* go with it, ends the script in the preparation call with a non-zero
\* status; no queue and no thread exists then, and the regression tests of a
\* corpus whose archive is present begin with at least one clip and one
\* configuration.
FatalEmpty ==
    /\ \A c \in Corpora :
          (/\ Called(c)
           /\ zips[c] # <<>>
           /\ (Len(WalkClips(c, data_dirs[c])) = 0 \/ Len(ConfigsFor(c)) = 0)) =>
                sup_pc = "exit_empty" /\ ExitStatus # 0
    /\ sup_pc = "exit_empty" =>
          /\ config_index = 0
          /\ cmd_queue = <<>>
          /\ threads = <<>>
    /\ (zips[current_test_data] # <<>> /\ sup_pc = "for") =>
          NumClips >= 1 /\ NumConfigs >= 1

\* The regression corpus was prepared; the decompression archive is present
\* with no clip in it, and its preparation has ended the script.
FatalEmptyWitness ==
    /\ sup_pc = "exit_empty"
    /\ Called(current_decomp_data)
    /\ locals.regression_data_dir = <<current_test_data>>
    /\ zips[current_decomp_data] = << <<>> >>

\* The size of the clip that the manifest of corpus c lists under name n.
SizeOf(c, n) == data_dirs[c][1][n].size

\* The manifest of corpus c lists the configurations in ascending filename
\* order and the clips in descending size order, as names relative to their
\* roots.
ManifestSortedFor(c) ==
    metadata[c] # <<>> =>
        LET m == metadata[c][1]
        IN  /\ \A i, j \in 1..Len(m.configs) : i < j => m.configs[i] <= m.configs[j]
            /\ \A i, j \in 1..Len(m.clips) :
                    i < j => SizeOf(c, m.clips[i]) >= SizeOf(c, m.clips[j])
            /\ {m.configs[i] : i \in 1..Len(m.configs)}
                    = {ConfigsFor(c)[i].filename : i \in 1..Len(ConfigsFor(c))}
            /\ {m.clips[i] : i \in 1..Len(m.clips)} = 1..Len(data_dirs[c][1])

\* C16: every manifest written is sorted so, the one of the regression
\* corpus and the one of the decompression corpus alike.
ManifestSorted == \A c \in Corpora : ManifestSortedFor(c)

\* The part of C16 that is about the regression corpus.
RegressionManifestSorted == ManifestSortedFor(current_test_data)

\* C19: a corpus directory that exists has its manifest.
ManifestMarksCache == \A c \in Corpora : data_dirs[c] # <<>> => metadata[c] # <<>>

----------------------------------------------------------------------------
\* The claims about the order of the work.

\* do_regression_tests has enumerated and sorted its lists.
Enumerated == sup_pc = "for" \/ config_index >= 1

\* The work items cmd_queue.get has returned in iteration k, in the order of
\* the calls.
DequeuedItems(k) == SelectSeq(dequeued[k], LAMBDA entry : entry # None)

\* C14: the clips are dispatched in descending size, clips of one size in the
\* order they were found in (their names are their places in that order):
\* regression_clips is the list found, ordered so, and the work items
\* dequeued in an iteration are, in the order of the calls, the head of it.
ClipDispatchOrder ==
    Enumerated =>
        LET found == WalkClips(current_test_data, data_dirs[current_test_data])
        IN  /\ Len(regression_clips) = Len(found)
            /\ {regression_clips[i] : i \in 1..NumClips} = {found[i] : i \in 1..Len(found)}
            /\ \A i, j \in 1..NumClips : i < j =>
                    \/ regression_clips[i].size > regression_clips[j].size
                    \/ /\ regression_clips[i].size = regression_clips[j].size
                       /\ regression_clips[i].clip_filename.name
                            < regression_clips[j].clip_filename.name
            /\ \A k \in 1..Len(dequeued) :
                    /\ Len(DequeuedItems(k)) <= NumClips
                    /\ \A p \in 1..Len(DequeuedItems(k)) :
                            DequeuedItems(k)[p].clip_filename
                                = regression_clips[p].clip_filename

\* Two clips found smaller first were dequeued larger first.
ClipDispatchOrderWitness ==
    /\ Len(dequeued) >= 1
    /\ Len(DequeuedItems(1)) = 2
    /\ data_dirs[current_test_data][1][1].size < data_dirs[current_test_data][1][2].size
    /\ DequeuedItems(1)[1].clip_filename.name = 2
    /\ DequeuedItems(1)[2].clip_filename.name = 1

\* The same queue order with the engine alone, several workers dequeuing.
DequeuedInQueueOrder ==
    \A k \in 1..Len(dequeued) : \A p \in 1..Len(DequeuedItems(k)) :
        DequeuedItems(k)[p].clip_filename = regression_clips[p].clip_filename

\* C15: the configurations are run in ascending filename order whatever the
\* order they were found in, each at most once: test_configs is the list
\* found in ascending order of distinct names, and iteration k seeds and runs
\* the commands of its k-th configuration alone.
ConfigOrder ==
    Enumerated =>
        /\ Len(test_configs) = Len(configs)
        /\ {test_configs[i].filename : i \in 1..NumConfigs}
                = {configs[i] : i \in 1..Len(configs)}
        /\ \A i, j \in 1..NumConfigs : i < j => test_configs[i].filename < test_configs[j].filename
        /\ config_index <= NumConfigs
        /\ Len(dequeued) = config_index
        /\ \A k \in 1..Len(dequeued) : \A p \in 1..Len(DequeuedItems(k)) :
                DequeuedItems(k)[p].cmd.config = test_configs[k].config_filename

\* The configurations were found as 2, 1: the first iteration has run 1 and
\* passed, the second runs 2.
ConfigOrderWitness ==
    /\ configs = <<2, 1>>
    /\ Len(verdicts) = 1
    /\ Len(dequeued) = 2
    /\ Len(DequeuedItems(2)) >= 1
    /\ DequeuedItems(1)[1].cmd.config.name = 1
    /\ DequeuedItems(2)[1].cmd.config.name = 2

----------------------------------------------------------------------------
\* The claims about interrupts, hung commands and the two result queues.

\* C17: in the observation loop a user interrupt can be taken at once,
\* whatever is queued or in flight; it ends the process with a non-zero
\* status and its threads with it, with the verdict of the iteration not
\* read and no further iteration begun, and nothing happens afterwards.
InterruptExits ==
    /\ sup_pc \in {"join", "is_alive"} => ENABLED Interrupt
    /\ sup_pc = "exit_interrupt" =>
          /\ ExitStatus # 0
          /\ Len(verdicts) = config_index - 1
          /\ Len(threads) = config_index
          /\ \A k \in Pools : \A i \in Threads(k) : ~IsAlive(threads[k][i])
          /\ ~ENABLED Next

\* The run was interrupted in its first iteration of several, with a work
\* item still queued and another in flight.
InterruptExitsWitness ==
    /\ sup_pc = "exit_interrupt"
    /\ config_index < NumConfigs
    /\ \E p \in 1..Len(cmd_queue[config_index]) : cmd_queue[config_index][p] # None
    /\ \E i \in Threads(config_index) : threads[config_index][i].pc = "killed"
    /\ Len(DequeuedItems(config_index)) > Len(completed_queue[config_index])

\* Worker i of iteration k is in a command that never returns.
Hanging(k, i) ==
    /\ k \in Pools /\ i \in Threads(k)
    /\ threads[k][i].pc = "system"
    /\ threads[k][i].entry.cmd \in hung

\* Every other worker of iteration k has completed every other clip and has
\* returned on a marker, one marker is left in the queue.
OthersFinished(k, i) ==
    /\ \A j \in Threads(k) \ {i} : threads[k][j].pc = "done"
    /\ Count(dequeued[k], None) = num_threads - 1
    /\ cmd_queue[k] = <<None>>
    /\ \A c \in Clips \ {threads[k][i].entry.clip_filename} :
            /\ Dequeues(k, c) = 1
            /\ Len(results[k][c]) = 1
            /\ Count(completed_queue[k], c) = 1

\* C18: a worker in a command that never returns stays there; while it does
\* the main thread is in the loop of its iteration, with no verdict read for
\* it and no later iteration begun; and with N >= 2 the other workers
\* complete every other work item and return, each on a marker.
HungBlocksOnlyItself ==
    /\ [][\A k \in 1..MaxConfigs : \A i \in 1..MaxWorkers :
            Hanging(k, i) => Hanging(k, i)']_vars
    /\ [](\A k \in 1..MaxConfigs : \A i \in 1..MaxWorkers :
            Hanging(k, i) =>
                /\ sup_pc \in {"start", "join", "is_alive"}
                /\ config_index = k
                /\ Len(verdicts) = k - 1
                /\ Len(threads) = k)
    /\ \A k \in 1..MaxConfigs : \A i \in 1..MaxWorkers :
            (Hanging(k, i) /\ num_threads >= 2) ~> (Hanging(k, i) /\ OthersFinished(k, i))

\* Of two workers and two clips, one worker hangs; the other has completed
\* the other clip and has returned.
HungBlocksOnlyItselfWitness ==
    \E k \in Pools : \E i \in Threads(k) :
        /\ Hanging(k, i)
        /\ num_threads >= 2 /\ NumClips >= 2
        /\ OthersFinished(k, i)
        /\ sup_pc = "join"

\* The failure records of clip c in the failed queue of iteration k.
FailureRecords(k, c) ==
    {q \in 1..Len(failed_queue[k]) : failed_queue[k][q].clip_filename = c}

\* C20: a clip in the completed queue whose command returned non-zero has
\* its record in the failed queue; the failed queue has at most one record
\* per work item and no more records than work items were dequeued; the
\* completed queue has at most M entries, and the number of entries of the
\* queue of the running iteration never decreases.
FailureBeforeCompletion ==
    /\ [](\A k \in Pools :
            /\ \A p \in 1..Len(completed_queue[k]) :
                    completed_queue[k][p] \in NonZero(k) =>
                        FailureRecords(k, completed_queue[k][p]) # {}
            /\ \A c \in Clips : Cardinality(FailureRecords(k, c)) <= 1
            /\ Len(failed_queue[k]) <= Len(DequeuedItems(k))
            /\ Len(completed_queue[k]) <= NumClips)
    /\ [][config_index' = config_index =>
            \A k \in Pools : k = config_index =>
                Len(completed_queue'[k]) >= Len(completed_queue[k])]_vars

\* Two commands failed: one clip is completed, the other has its failure
\* record in the queue and is not completed yet.
FailureBeforeCompletionWitness ==
    \E k \in Pools :
        /\ Len(failed_queue[k]) = 2
        /\ Len(completed_queue[k]) = 1
        /\ completed_queue[k][1] \in NonZero(k)

\* The work items iteration k has dequeued and not completed yet.
InFlightCount(k) == Len(DequeuedItems(k)) - Len(completed_queue[k])

\* C21: a worker reads a marker only from a queue that holds no work item;
\* so once a worker of an iteration has returned, all M work items of the
\* iteration were dequeued; and at most N work items of the running
\* iteration are in flight.
MarkersAfterWork ==
    /\ [][\A k \in Pools :
            Count(dequeued'[k], None) > Count(dequeued[k], None) =>
                \A p \in 1..Len(cmd_queue[k]) : cmd_queue[k][p] = None]_vars
    /\ [](\A k \in Pools :
            /\ (\E i \in Threads(k) : threads[k][i].pc = "done") =>
                    /\ Len(DequeuedItems(k)) = NumClips
                    /\ \A c \in Clips : Dequeues(k, c) = 1
            /\ k = config_index => InFlightCount(k) \in 0..num_threads)

\* Of two workers one has returned on its marker while the other is still in
\* the command of the last of two clips.
MarkersAfterWorkWitness ==
    \E k \in Pools : \E i, j \in Threads(k) :
        /\ NumClips >= 2
        /\ threads[k][i].pc = "done"
        /\ threads[k][j].pc = "system"
        /\ Len(completed_queue[k]) = NumClips - 1

====
